---- MODULE Spec2Model ----
(***************************************************************************)
(* EduGraph tutor pipeline (src/app.py): one Streamlit script run per      *)
(* request, seven node functions applied in sequence to a dict, and the    *)
(* session state that survives across runs.                                *)
(*                                                                         *)
(* Texts are sequences of tokens.  Text that the code inspects character   *)
(* by character (language names, classifier responses, topics) is spelled  *)
(* one character per token; literals the code only copies are one token.   *)
(* The emoji of the two user-facing literals (lines 88 and 100) are left   *)
(* out of the tokens.                                                      *)
(***************************************************************************)
EXTENDS Integers, Sequences, FiniteSets, TLC

VARIABLES pc, state, session_answer, session_feedback,
          calls, ran, nreq,
          genResponse, retDocs, rawAnswer, rawFeedback, session0,
          prev, reqs

vars == <<pc, state, session_answer, session_feedback,
          calls, ran, nreq,
          genResponse, retDocs, rawAnswer, rawFeedback, session0,
          prev, reqs>>

(* ----------------------------- bounds --------------------------------- *)
MaxRequests == 2
MaxDocs == 2
MaxFrags == 2

(* ------------------------- character helpers -------------------------- *)
UpperToLower ==
  [c \in {"A","B","C","D","E","F","G","H","I","J","K","L","M",
          "N","O","P","Q","R","S","T","U","V","W","X","Y","Z"} |->
     CASE c = "A" -> "a" [] c = "B" -> "b" [] c = "C" -> "c" [] c = "D" -> "d"
       [] c = "E" -> "e" [] c = "F" -> "f" [] c = "G" -> "g" [] c = "H" -> "h"
       [] c = "I" -> "i" [] c = "J" -> "j" [] c = "K" -> "k" [] c = "L" -> "l"
       [] c = "M" -> "m" [] c = "N" -> "n" [] c = "O" -> "o" [] c = "P" -> "p"
       [] c = "Q" -> "q" [] c = "R" -> "r" [] c = "S" -> "s" [] c = "T" -> "t"
       [] c = "U" -> "u" [] c = "V" -> "v" [] c = "W" -> "w" [] c = "X" -> "x"
       [] c = "Y" -> "y" [] c = "Z" -> "z"]

LowerChar(c) == IF c \in DOMAIN UpperToLower THEN UpperToLower[c] ELSE c

UpperChar(c) ==
  IF \E u \in DOMAIN UpperToLower : UpperToLower[u] = c
  THEN CHOOSE u \in DOMAIN UpperToLower : UpperToLower[u] = c
  ELSE c

\* str.lower()
Lower(s) == [i \in 1..Len(s) |-> LowerChar(s[i])]

Whitespace == {" ", "\n", "\t"}

\* str.strip()
Strip(s) ==
  LET keep == {i \in 1..Len(s) : s[i] \notin Whitespace} IN
  IF keep = {} THEN <<>>
  ELSE LET lo == CHOOSE i \in keep : \A j \in keep : i <= j
           hi == CHOOSE i \in keep : \A j \in keep : j <= i
       IN SubSeq(s, lo, hi)

\* str.capitalize()
Capitalize(s) ==
  [i \in 1..Len(s) |-> IF i = 1 THEN UpperChar(s[i]) ELSE LowerChar(s[i])]

\* kw in s
Contains(s, kw) ==
  \E i \in 1..(Len(s) - Len(kw) + 1) : SubSeq(s, i, i + Len(kw) - 1) = kw

(* ----------------------------- literals ------------------------------- *)
English  == <<"E","n","g","l","i","s","h">>
Hindi    == <<"H","i","n","d","i">>
Gujarati == <<"G","u","j","a","r","a","t","i">>
Tamil    == <<"T","a","m","i","l">>

\* a table with a wrong code for English
LANGUAGE_CODES_WrongEnglish ==
  (English :> "eng") @@ (Hindi :> "hi") @@ (Gujarati :> "gu") @@ (Tamil :> "ta")

LANGUAGE_CODES ==
  (English :> "en") @@ (Hindi :> "hi") @@ (Gujarati :> "gu") @@ (Tamil :> "ta")

\* the sidebar selectbox
LangOptions == {English, Hindi, Gujarati, Tamil}

\* language strings a caller of the nodes may pass besides the selectbox's
French == <<"F","r","e","n","c","h">>
english == <<"e","n","g","l","i","s","h">>
AnyLangs == LangOptions \cup {French, english}

\* the text input, when it is not empty
Questions == {<<"Why is the sky blue?">>}

kwMath      == <<"m","a","t","h">>
kwScience   == <<"s","c","i","e","n","c","e">>
kwAi        == <<"a","i">>
kwArtInt    == <<"a","r","t","i","f","i","c","i","a","l"," ",
                 "i","n","t","e","l","l","i","g","e","n","c","e">>
kwHistory   == <<"h","i","s","t","o","r","y">>
kwGeography == <<"g","e","o","g","r","a","p","h","y">>

TopicMath      == <<"M","a","t","h">>
TopicScience   == <<"S","c","i","e","n","c","e">>
TopicAI        == <<"A","r","t","i","f","i","c","i","a","l"," ",
                    "I","n","t","e","l","l","i","g","e","n","c","e">>
TopicHistory   == <<"H","i","s","t","o","r","y">>
TopicGeography == <<"G","e","o","g","r","a","p","h","y">>
TopicDefault   == <<"G","e","n","e","r","a","l"," ",
                    "K","n","o","w","l","e","d","g","e">>
GradeConst     == <<"Grade 6">>
NoContent      == <<"No content found">>
ThisTopic      == <<"this topic">>

(* --------------------------- collaborators ---------------------------- *)
\* failure texts str(e) of the translation service
ErrMsgs == {<<"Request exception">>}

\* GoogleTranslator(...).translate(text): returns the translation or raises
TranslateOutcomes ==
  {[ok |-> TRUE, err |-> <<>>]} \cup {[ok |-> FALSE, err |-> e] : e \in ErrMsgs}

\* the text the translation service returns for (text, target)
Translate(text, target) == <<"tr", target>> \o text \o <<"/tr">>

\* explanations gemini.generate_content(prompt).text may return
Explanations == {<<"The sky scatters blue light.">>, <<"Plants make food from light.">>}

GenerateOutcomes(texts) ==
  {[ok |-> TRUE, text |-> t] : t \in texts} \cup {[ok |-> FALSE, text |-> <<>>]}

\* page_content of the documents the retriever may return: an ordinary page,
\* a page without text, and a page whose text is the sentinel's
PageContents == {<<"Page A">>, <<>>, <<"No content found">>}

Doc(c) == [page_content |-> c]

RECURSIVE DocLists(_)
DocLists(n) ==
  IF n = 0 THEN {<<>>}
  ELSE LET shorter == DocLists(n - 1) IN
       shorter \cup {Append(l, Doc(c)) : l \in {x \in shorter : Len(x) = n - 1},
                                         c \in PageContents}

\* retriever.get_relevant_documents(query): a list of documents, or raises
RetrieveOutcomes ==
  {[ok |-> TRUE, docs |-> d] : d \in DocLists(MaxDocs)} \cup {[ok |-> FALSE, docs |-> <<>>]}

\* one collaborator call as seen from outside
Call(svc, stage, target, arg, ok, err) ==
  [svc |-> svc, stage |-> stage, target |-> target, arg |-> arg, ok |-> ok, err |-> err]

(* ------------------------------ the dict ------------------------------ *)
\* state[k] = v
Put(st, k, v) == [x \in DOMAIN st \cup {k} |-> IF x = k THEN v ELSE st[x]]

Result(st, raised, cs) == [state |-> st, raised |-> raised, calls |-> cs]

(* ------------------------------- nodes -------------------------------- *)
translate_node(st, tr) ==
  IF Lower(st.lang) # Lower(English)
  THEN LET c == Call("translate", "translate_node", "en", st.question, tr.ok, tr.err) IN
       IF tr.ok
       THEN Result(Put(st, "translated", Translate(st.question, "en")), FALSE, <<c>>)
       ELSE Result(st, TRUE, <<c>>)
  ELSE Result(Put(st, "translated", st.question), FALSE, <<>>)

\* the chain with the science test ahead of the math test
ClassifyTopic_ScienceFirst(response) ==
  IF Contains(response, kwScience) THEN TopicScience
  ELSE IF Contains(response, kwMath) THEN TopicMath
  ELSE IF Contains(response, kwAi) \/ Contains(response, kwArtInt) THEN TopicAI
  ELSE IF Contains(response, kwHistory) THEN TopicHistory
  ELSE IF Contains(response, kwGeography) THEN TopicGeography
  ELSE Capitalize(Strip(response))

\* the if/elif chain over the lower-cased response
ClassifyTopic(response) ==
  IF Contains(response, kwMath) THEN TopicMath
  ELSE IF Contains(response, kwScience) THEN TopicScience
  ELSE IF Contains(response, kwAi) \/ Contains(response, kwArtInt) THEN TopicAI
  ELSE IF Contains(response, kwHistory) THEN TopicHistory
  ELSE IF Contains(response, kwGeography) THEN TopicGeography
  ELSE Capitalize(Strip(response))

IntentPrompt(st) ==
  <<"What school subject does the following question belong to?\n\nQuestion: \"">>
    \o st.translated \o <<"\"">>

\* a classifier without the try/except
intent_node_Propagates(st, gen) ==
  LET c == Call("generate", "intent_node", "", IntentPrompt(st), gen.ok, <<>>) IN
  IF gen.ok
  THEN Result(Put(Put(st, "topic", ClassifyTopic(Lower(gen.text))), "grade", GradeConst),
              FALSE, <<c>>)
  ELSE Result(st, TRUE, <<c>>)

intent_node(st, gen) ==
  LET c == Call("generate", "intent_node", "", IntentPrompt(st), gen.ok, <<>>)
      topic == IF gen.ok THEN ClassifyTopic(Lower(gen.text)) ELSE TopicDefault
  IN Result(Put(Put(st, "topic", topic), "grade", GradeConst), FALSE, <<c>>)

\* a retriever that keeps the last document instead of the first
retrieve_node_LastDoc(st, rt) ==
  LET c == Call("retrieve", "retrieve_node", "", st.translated, rt.ok, <<>>) IN
  IF rt.ok
  THEN Result(Put(st, "docs", IF rt.docs # <<>> THEN rt.docs[Len(rt.docs)].page_content
                                               ELSE NoContent), FALSE, <<c>>)
  ELSE Result(st, TRUE, <<c>>)

retrieve_node(st, rt) ==
  LET c == Call("retrieve", "retrieve_node", "", st.translated, rt.ok, <<>>) IN
  IF rt.ok
  THEN Result(Put(st, "docs", IF rt.docs # <<>> THEN rt.docs[1].page_content
                                               ELSE NoContent), FALSE, <<c>>)
  ELSE Result(st, TRUE, <<c>>)

AnswerPrompt(st) ==
  <<"\nYou are an AI tutor helping a ">> \o st.grade
    \o <<" student understand the topic: ">> \o st.topic
    \o <<".\nExplain this using very simple words and friendly examples.\n\nContext:\n">>
    \o st.docs \o <<"\n">>

\* an explainer that substitutes a fallback text when the generation fails
generate_answer_node_Fallback(st, gen) ==
  LET c == Call("generate", "generate_answer_node", "", AnswerPrompt(st), gen.ok, <<>>) IN
  Result(Put(st, "answer", IF gen.ok THEN gen.text ELSE <<"Sorry, no answer.">>),
         FALSE, <<c>>)

generate_answer_node(st, gen) ==
  LET c == Call("generate", "generate_answer_node", "", AnswerPrompt(st), gen.ok, <<>>) IN
  IF gen.ok
  THEN Result(Put(st, "answer", gen.text), FALSE, <<c>>)
  ELSE Result(st, TRUE, <<c>>)

\* a progress stage that records something in the dict
progress_node_Writes(st) == Result(Put(st, "progress", <<"step 5">>), FALSE, <<>>)

progress_node(st) == Result(st, FALSE, <<>>)

\* an encourager that never looks at the topic
feedback_node_AlwaysDefault(st) ==
  Result(Put(st, "feedback",
             <<"Great job! Want to learn more about ">> \o ThisTopic \o <<"?">>),
         FALSE, <<>>)

\* an encourager that takes the topic from the dict of another run when that
\* run has one
feedback_node_SharedTopic(st) ==
  LET shared == reqs["a"].state
      topic == IF "topic" \in DOMAIN shared THEN shared.topic
               ELSE IF "topic" \in DOMAIN st THEN st.topic ELSE ThisTopic
  IN Result(Put(st, "feedback",
                <<"Great job! Want to learn more about ">> \o topic \o <<"?">>),
            FALSE, <<>>)

feedback_node(st) ==
  LET topic == IF "topic" \in DOMAIN st THEN st.topic ELSE ThisTopic IN
  Result(Put(st, "feedback",
             <<"Great job! Want to learn more about ">> \o topic \o <<"?">>),
         FALSE, <<>>)

\* the text appended in the except branch, e being str(e)
DiagnosticSuffix(e) == <<"\n\n(Translation failed: ">> \o e \o <<")">>

TargetLang(st) ==
  IF st.lang \in DOMAIN LANGUAGE_CODES THEN LANGUAGE_CODES[st.lang] ELSE "en"

\* only the answer is assigned
OnTranslated_AnswerOnly(st, translated_answer, translated_feedback) ==
  Put(st, "answer", translated_answer)

\* the two assignments that follow the two translate calls
OnTranslated(st, translated_answer, translated_feedback) ==
  Put(Put(st, "answer", translated_answer), "feedback", translated_feedback)

\* an except branch that swallows the failure without a note
OnTranslationFailed_Silent(st, e) == st

\* the except branch
OnTranslationFailed(st, e) == Put(st, "answer", st.answer \o DiagnosticSuffix(e))

\* a localizer that assigns the answer as soon as it is translated
translate_back_node_EagerAssign(st, tr1, tr2) ==
  LET target_lang == TargetLang(st)
      c1 == Call("translate", "translate_back_node", target_lang, st.answer, tr1.ok, tr1.err)
      c2 == Call("translate", "translate_back_node", target_lang, st.feedback, tr2.ok, tr2.err)
      st1 == Put(st, "answer", Translate(st.answer, target_lang))
  IN
  IF target_lang # "en"
  THEN IF ~tr1.ok
       THEN Result(OnTranslationFailed(st, tr1.err), FALSE, <<c1>>)
       ELSE IF ~tr2.ok
       THEN Result(OnTranslationFailed(st1, tr2.err), FALSE, <<c1, c2>>)
       ELSE Result(Put(st1, "feedback", Translate(st.feedback, target_lang)),
                   FALSE, <<c1, c2>>)
  ELSE Result(st, FALSE, <<>>)

\* a localizer that tries the first translation a second time
translate_back_node_Retry(st, tr1, tr2) ==
  LET target_lang == TargetLang(st)
      c1 == Call("translate", "translate_back_node", target_lang, st.answer, FALSE,
                 <<"Request exception">>)
      c2 == Call("translate", "translate_back_node", target_lang, st.answer, tr1.ok, tr1.err)
      c3 == Call("translate", "translate_back_node", target_lang, st.feedback, tr2.ok, tr2.err)
  IN
  IF target_lang # "en"
  THEN IF ~tr1.ok
       THEN Result(OnTranslationFailed(st, tr1.err), FALSE, <<c1, c2>>)
       ELSE IF ~tr2.ok
       THEN Result(OnTranslationFailed(st, tr2.err), FALSE, <<c1, c2, c3>>)
       ELSE Result(OnTranslated(st, Translate(st.answer, target_lang),
                                    Translate(st.feedback, target_lang)),
                   FALSE, <<c1, c2, c3>>)
  ELSE Result(st, FALSE, <<>>)

translate_back_node(st, tr1, tr2) ==
  LET target_lang == TargetLang(st)
      c1 == Call("translate", "translate_back_node", target_lang, st.answer, tr1.ok, tr1.err)
      c2 == Call("translate", "translate_back_node", target_lang, st.feedback, tr2.ok, tr2.err)
  IN
  IF target_lang # "en"
  THEN IF ~tr1.ok
       THEN Result(OnTranslationFailed(st, tr1.err), FALSE, <<c1>>)
       ELSE IF ~tr2.ok
       THEN Result(OnTranslationFailed(st, tr2.err), FALSE, <<c1, c2>>)
       ELSE Result(OnTranslated(st, Translate(st.answer, target_lang),
                                    Translate(st.feedback, target_lang)),
                   FALSE, <<c1, c2>>)
  ELSE Result(st, FALSE, <<>>)

(* ------------------------ classifier responses ------------------------ *)
Fragments ==
  {kwMath, TopicScience, kwAi, TopicAI, kwHistory, kwGeography,
   <<" ">>, <<"a","r","t">>, <<"P","E">>}

RECURSIVE FragmentTexts(_)
FragmentTexts(n) ==
  IF n = 0 THEN {<<>>}
  ELSE LET shorter == FragmentTexts(n - 1) IN
       shorter \cup {t \o f : t \in shorter, f \in Fragments}

\* every response text of at most MaxFrags fragments
AllResponses == FragmentTexts(MaxFrags)

\* the responses used when the whole pipeline is run
PipelineResponses ==
  {TopicScience, <<" ">> \o <<"a","r","t">> \o <<"\n">>, kwMath \o <<" ">> \o kwScience}

(* --------------------------- main execution --------------------------- *)
Pipeline ==
  <<"translate_node", "intent_node", "retrieve_node", "generate_answer_node",
    "progress_node", "feedback_node", "translate_back_node">>

Stages == {Pipeline[i] : i \in 1..Len(Pipeline)}

StageIndex(stage) == CHOOSE i \in 1..Len(Pipeline) : Pipeline[i] = stage

\* a script in which the call of progress_node is missing
NextStage_SkipProgress(stage) ==
  IF stage = "generate_answer_node" THEN "feedback_node"
  ELSE IF StageIndex(stage) < Len(Pipeline) THEN Pipeline[StageIndex(stage) + 1]
  ELSE "deliver"

\* the statement that follows the call of a node in the script
NextStage(stage) ==
  IF StageIndex(stage) < Len(Pipeline) THEN Pipeline[StageIndex(stage) + 1]
  ELSE "deliver"

NoOutcome == [ok |-> FALSE, text |-> <<>>]
NoDocs    == [ok |-> FALSE, docs |-> <<>>]

\* what a finished run leaves behind: its inputs, what its collaborators
\* answered, how far it got and what it delivered
Snapshot ==
  [run |-> TRUE, question |-> state.question, lang |-> state.lang,
   calls |-> calls, ran |-> ran, pc |-> pc,
   genResponse |-> genResponse, retDocs |-> retDocs, rawAnswer |-> rawAnswer,
   answer |-> session_answer, feedback |-> session_feedback]

NoRun ==
  [run |-> FALSE, question |-> <<>>, lang |-> <<>>,
   calls |-> <<>>, ran |-> <<>>, pc |-> "idle",
   genResponse |-> NoOutcome, retDocs |-> NoDocs, rawAnswer |-> <<>>,
   answer |-> <<>>, feedback |-> <<>>]

\* script runs of other sessions, each with a dict of its own
Requests == {"a", "b"}

IdleRequest == [pc |-> "idle", state |-> [question |-> <<>>, lang |-> English], outs |-> <<>>]

Init ==
  /\ pc = "idle"
  /\ state = [question |-> <<>>, lang |-> English]
  /\ session_answer = <<>>
  /\ session_feedback = <<>>
  /\ session0 = <<(<<>>), (<<>>)>>
  /\ calls = <<>>
  /\ ran = <<>>
  /\ nreq = 0
  /\ genResponse = NoOutcome
  /\ retDocs = NoDocs
  /\ rawAnswer = <<>>
  /\ rawFeedback = <<>>
  /\ prev = NoRun
  /\ reqs = [r \in Requests |-> IdleRequest]

\* if run and question: state = {"question": question, "lang": lang}
NewRecord(inputs) ==
  /\ pc \in {"idle", "done", "aborted"}
  /\ nreq < MaxRequests
  /\ \E in \in inputs : state' = [question |-> in[1], lang |-> in[2]]
  /\ pc' = Pipeline[1]
  /\ nreq' = nreq + 1
  /\ calls' = <<>>
  /\ ran' = <<>>
  /\ session0' = <<session_answer, session_feedback>>
  /\ genResponse' = NoOutcome
  /\ retDocs' = NoDocs
  /\ rawAnswer' = <<>>
  /\ rawFeedback' = <<>>
  /\ UNCHANGED <<session_answer, session_feedback, reqs>>

StartRequestIn(langs) == NewRecord(Questions \X langs) /\ UNCHANGED prev

StartRequest == StartRequestIn(LangOptions)

\* state = node(state): an exception leaves the script, otherwise go on
Apply(stage, r) ==
  /\ pc = stage
  /\ pc' = IF r.raised THEN "aborted" ELSE NextStage(stage)
  /\ state' = r.state
  /\ calls' = calls \o r.calls
  /\ ran' = Append(ran, stage)
  /\ UNCHANGED <<session_answer, session_feedback, session0, nreq, prev, reqs>>

RunTranslate ==
  /\ \E tr \in TranslateOutcomes : Apply("translate_node", translate_node(state, tr))
  /\ UNCHANGED <<genResponse, retDocs, rawAnswer, rawFeedback>>

RunIntentFrom(texts) ==
  /\ \E gen \in GenerateOutcomes(texts) :
       /\ Apply("intent_node", intent_node(state, gen))
       /\ genResponse' = gen
  /\ UNCHANGED <<retDocs, rawAnswer, rawFeedback>>

RunIntent == RunIntentFrom(PipelineResponses)

RunRetrieveFrom(outcomes) ==
  /\ \E rt \in outcomes :
       /\ Apply("retrieve_node", retrieve_node(state, rt))
       /\ retDocs' = rt
  /\ UNCHANGED <<genResponse, rawAnswer, rawFeedback>>

RunRetrieve == RunRetrieveFrom(RetrieveOutcomes)

RunGenerateAnswer ==
  /\ \E gen \in GenerateOutcomes(Explanations) :
       /\ Apply("generate_answer_node", generate_answer_node(state, gen))
       /\ rawAnswer' = gen.text
  /\ UNCHANGED <<genResponse, retDocs, rawFeedback>>

RunProgress ==
  /\ Apply("progress_node", progress_node(state))
  /\ UNCHANGED <<genResponse, retDocs, rawAnswer, rawFeedback>>

RunFeedback ==
  /\ Apply("feedback_node", feedback_node(state))
  /\ rawFeedback' = state'.feedback
  /\ UNCHANGED <<genResponse, retDocs, rawAnswer>>

RunTranslateBack ==
  /\ \E tr1 \in TranslateOutcomes, tr2 \in TranslateOutcomes :
       Apply("translate_back_node", translate_back_node(state, tr1, tr2))
  /\ UNCHANGED <<genResponse, retDocs, rawAnswer, rawFeedback>>

\* a script that adds to the session's texts instead of replacing them
Deliver_Appends ==
  /\ pc = "deliver"
  /\ session_answer' = session_answer \o state.answer
  /\ session_feedback' = session_feedback \o state.feedback
  /\ pc' = "done"
  /\ UNCHANGED <<state, calls, ran, nreq, session0,
                 genResponse, retDocs, rawAnswer, rawFeedback, prev, reqs>>

\* st.session_state.answer = state["answer"]; ...feedback = state["feedback"]
Deliver ==
  /\ pc = "deliver"
  /\ session_answer' = state.answer
  /\ session_feedback' = state.feedback
  /\ pc' = "done"
  /\ UNCHANGED <<state, calls, ran, nreq, session0,
                 genResponse, retDocs, rawAnswer, rawFeedback, prev, reqs>>

Next ==
  \/ StartRequest
  \/ RunTranslate
  \/ RunIntent
  \/ RunRetrieve
  \/ RunGenerateAnswer
  \/ RunProgress
  \/ RunFeedback
  \/ RunTranslateBack
  \/ Deliver

Spec == Init /\ [][Next]_vars

\* the script up to the Classifier, with every response text of AllResponses
ClassifyAny == RunIntentFrom(AllResponses)

NextClassify ==
  \/ StartRequest
  \/ RunTranslate
  \/ ClassifyAny

SpecClassify == Init /\ [][NextClassify]_vars

\* the retriever answering with at most one document, or raising; what
\* follows the first document is never read
ShortRetrieveOutcomes == {o \in RetrieveOutcomes : Len(o.docs) <= 1}

RunRetrieveShort == RunRetrieveFrom(ShortRetrieveOutcomes)

NextLive ==
  \/ StartRequest
  \/ RunTranslate
  \/ RunIntent
  \/ RunRetrieveShort
  \/ RunGenerateAnswer
  \/ RunProgress
  \/ RunFeedback
  \/ RunTranslateBack
  \/ Deliver

\* the script run to its end: every node call returns or raises, and the
\* statement after it is executed; pressing the button again is not forced
Fairness ==
  /\ WF_vars(RunTranslate)
  /\ WF_vars(RunIntent)
  /\ WF_vars(RunRetrieveShort)
  /\ WF_vars(RunGenerateAnswer)
  /\ WF_vars(RunProgress)
  /\ WF_vars(RunFeedback)
  /\ WF_vars(RunTranslateBack)
  /\ WF_vars(Deliver)

SpecLive == Init /\ [][NextLive]_vars /\ Fairness

(* ------------------- the same form submitted again -------------------- *)
\* the result a run got from the call it made at position i
CallResult(run, i) ==
  CASE run.calls[i].stage = "intent_node" -> run.genResponse.text
    [] run.calls[i].stage = "retrieve_node" -> run.retDocs.docs
    [] run.calls[i].stage = "generate_answer_node" -> run.rawAnswer
    [] OTHER -> <<>>

ThisRun ==
  [calls |-> calls, genResponse |-> genResponse, retDocs |-> retDocs,
   rawAnswer |-> rawAnswer]

\* the collaborators are functions of their arguments: a call of this run
\* with the arguments of a call of the previous run ends as that one did
SameCollaborators ==
  \A i \in 1..Len(calls), j \in 1..Len(prev.calls) :
    (/\ calls[i].svc = prev.calls[j].svc
     /\ calls[i].target = prev.calls[j].target
     /\ calls[i].arg = prev.calls[j].arg)
      => /\ calls[i].ok = prev.calls[j].ok
         /\ calls[i].err = prev.calls[j].err
         /\ CallResult(ThisRun, i) = CallResult(prev, j)

\* a step of the script against such collaborators
Replayed(step) == step /\ SameCollaborators'

FirstSubmit == nreq = 0 /\ StartRequest

\* the button pressed again with the form unchanged
Resubmit ==
  /\ nreq > 0
  /\ NewRecord({<<state.question, state.lang>>})
  /\ prev' = Snapshot

NextRepeat ==
  \/ FirstSubmit
  \/ Resubmit
  \/ Replayed(RunTranslate)
  \/ Replayed(RunIntent)
  \/ Replayed(RunRetrieve)
  \/ Replayed(RunGenerateAnswer)
  \/ Replayed(RunProgress)
  \/ Replayed(RunFeedback)
  \/ Replayed(RunTranslateBack)
  \/ Deliver

SpecRepeat == Init /\ [][NextRepeat]_vars

(* ------------------- script runs of several sessions ------------------ *)
\* what the collaborators answer during one node call
Outcome(tr1, tr2, gen, rt) == [tr1 |-> tr1, tr2 |-> tr2, gen |-> gen, rt |-> rt]

OkTr == [ok |-> TRUE, err |-> <<>>]

PairLangs == {English, Hindi}

StageOutcomes(stage) ==
  CASE stage = "translate_node" ->
         {Outcome(t, OkTr, NoOutcome, NoDocs) : t \in TranslateOutcomes}
    [] stage = "intent_node" ->
         {Outcome(OkTr, OkTr, g, NoDocs) : g \in GenerateOutcomes(PipelineResponses)}
    [] stage = "retrieve_node" ->
         {Outcome(OkTr, OkTr, NoOutcome, rt) :
            rt \in ShortRetrieveOutcomes}
    [] stage = "generate_answer_node" ->
         {Outcome(OkTr, OkTr, g, NoDocs) : g \in GenerateOutcomes(Explanations)}
    [] stage = "translate_back_node" ->
         {Outcome(t1, t2, NoOutcome, NoDocs) :
            t1 \in TranslateOutcomes, t2 \in TranslateOutcomes}
    [] OTHER -> {Outcome(OkTr, OkTr, NoOutcome, NoDocs)}

\* state = node(state) for the node the script is about to call
NodeResult(stage, st, o) ==
  CASE stage = "translate_node" -> translate_node(st, o.tr1)
    [] stage = "intent_node" -> intent_node(st, o.gen)
    [] stage = "retrieve_node" -> retrieve_node(st, o.rt)
    [] stage = "generate_answer_node" -> generate_answer_node(st, o.gen)
    [] stage = "progress_node" -> progress_node(st)
    [] stage = "feedback_node" -> feedback_node(st)
    [] stage = "translate_back_node" -> translate_back_node(st, o.tr1, o.tr2)

\* a session starts a run of the script: its own dict
PairStart(r) ==
  /\ reqs[r].pc = "idle"
  /\ \E q \in Questions, l \in PairLangs :
       reqs' = [reqs EXCEPT ![r] = [pc |-> Pipeline[1],
                                    state |-> [question |-> q, lang |-> l],
                                    outs |-> <<>>]]

\* that run calls its next node
PairStep(r) ==
  /\ reqs[r].pc \in Stages
  /\ \E o \in StageOutcomes(reqs[r].pc) :
       LET res == NodeResult(reqs[r].pc, reqs[r].state, o) IN
       reqs' = [reqs EXCEPT ![r] =
                  [pc |-> IF res.raised THEN "aborted" ELSE NextStage(reqs[r].pc),
                   state |-> res.state,
                   outs |-> Append(reqs[r].outs, o)]]

MainVars ==
  <<pc, state, session_answer, session_feedback, calls, ran, nreq,
    genResponse, retDocs, rawAnswer, rawFeedback, session0, prev>>

StartA == PairStart("a") /\ UNCHANGED MainVars
StartB == PairStart("b") /\ UNCHANGED MainVars
StepA  == PairStep("a") /\ UNCHANGED MainVars
StepB  == PairStep("b") /\ UNCHANGED MainVars

NextPair ==
  \/ StartA
  \/ StartB
  \/ StepA
  \/ StepB

SpecPair == Init /\ [][NextPair]_vars

\* the nodes driven with any language string, not only the selectbox's
StartAnyLang == StartRequestIn(AnyLangs)

NextAnyLang ==
  \/ StartAnyLang
  \/ RunTranslate
  \/ RunIntent
  \/ RunRetrieve
  \/ RunGenerateAnswer
  \/ RunProgress
  \/ RunFeedback
  \/ RunTranslateBack
  \/ Deliver

SpecAnyLang == Init /\ [][NextAnyLang]_vars

(* ------------------------------ helpers ------------------------------- *)
\* the calls of the current request made by a stage to a service
CallsOf(stage, svc) ==
  {i \in 1..Len(calls) : calls[i].stage = stage /\ calls[i].svc = svc}

FailedCallsOf(stage) == {i \in 1..Len(calls) : calls[i].stage = stage /\ ~calls[i].ok}

\* the Localizer has returned
Localized == pc \in {"deliver", "done"}

(* ------------------------------- claims ------------------------------- *)

\* C1: within one request the stages run in the fixed order translate_node,
\* intent_node, retrieve_node, generate_answer_node, progress_node,
\* feedback_node, translate_back_node: the stages that have run are always a
\* prefix of that order (none twice, none before its predecessor), the stage
\* about to run is the next one, and a completed request has run all seven.
C1_StagesInOrder ==
  /\ Len(ran) <= Len(Pipeline)
  /\ \A i \in 1..Len(ran) : ran[i] = Pipeline[i]
  /\ pc \in Stages => Len(ran) < Len(Pipeline) /\ pc = Pipeline[Len(ran) + 1]
  /\ Localized => ran = Pipeline

C1_Witness == pc = "done" /\ ran = Pipeline /\ nreq = 2

\* C2: a failure of either translation call of translate_back_node does not
\* abort the request: the node returns, the script goes on to deliver, and
\* the final answer is the Explainer's text followed by the diagnostic suffix.
C2_LocalizerFailureDegrades ==
  \A i \in FailedCallsOf("translate_back_node") :
    /\ state.lang # English
    /\ Localized
    /\ state.answer = rawAnswer \o DiagnosticSuffix(calls[i].err)
    /\ pc = "done" => session_answer = rawAnswer \o DiagnosticSuffix(calls[i].err)

C2_Witness ==
  /\ pc = "done"
  /\ \E i \in FailedCallsOf("translate_back_node") : calls[i].arg = rawFeedback
  /\ session_answer = rawAnswer \o DiagnosticSuffix(<<"Request exception">>)

\* C3: the Localizer degrades each field on its own: when only the
\* translation of the explanation fails the final encouragement is the
\* translated one, and when only the translation of the encouragement
\* fails the final explanation is the translated one, without a suffix.
C3_FieldsIndependent ==
  (Localized /\ state.lang # English) =>
    LET failed == FailedCallsOf("translate_back_node") IN
    /\ (\E i \in failed : calls[i].arg = rawAnswer)
         => state.feedback = Translate(rawFeedback, LANGUAGE_CODES[state.lang])
    /\ (\E i \in failed : calls[i].arg = rawFeedback)
         => state.answer = Translate(rawAnswer, LANGUAGE_CODES[state.lang])

\* C4: a failure of the Normalizer's translation call or of the Explainer's
\* generation call aborts the request at that stage: that stage is the last
\* one that ran, and the session's answer and feedback are still what they
\* were when the request started.
C4_FatalAborts ==
  \A stage \in {"translate_node", "generate_answer_node"} :
    FailedCallsOf(stage) # {} =>
      /\ pc = "aborted"
      /\ ran[Len(ran)] = stage
      /\ session_answer = session0[1]
      /\ session_feedback = session0[2]

C4_Witness ==
  /\ pc = "aborted"
  /\ FailedCallsOf("generate_answer_node") # {}
  /\ ran = SubSeq(Pipeline, 1, 4)
  /\ session_answer # <<>>
  /\ session_answer = session0[1]

\* C5: when the generation call of intent_node fails, topic is "General
\* Knowledge", grade is the fixed constant, the node does not raise, and the
\* next stage is the Retriever.
C5_ClassifierAbsorbs ==
  FailedCallsOf("intent_node") # {} =>
    /\ "topic" \in DOMAIN state /\ state.topic = TopicDefault
    /\ "grade" \in DOMAIN state /\ state.grade = GradeConst
    /\ Len(ran) = 2 => pc = "retrieve_node"
    /\ Len(ran) >= 2

C5_Witness ==
  /\ FailedCallsOf("intent_node") # {}
  /\ pc = "done"
  /\ state.topic = TopicDefault

\* C6: for the language English the request makes no translation call,
\* translated equals question, and the final answer and feedback are the
\* Explainer's and the Encourager's texts unchanged.
C6_CanonicalIdentity ==
  (pc # "idle" /\ state.lang = English) =>
    /\ \A i \in 1..Len(calls) : calls[i].svc # "translate"
    /\ Len(ran) >= 1 => "translated" \in DOMAIN state /\ state.translated = state.question
    /\ Localized => state.answer = rawAnswer /\ state.feedback = rawFeedback
    /\ pc = "done" => session_answer = rawAnswer /\ session_feedback = rawFeedback

C6_Witness ==
  /\ pc = "done"
  /\ state.lang = English
  /\ rawAnswer \in Explanations
  /\ session_answer = rawAnswer
  /\ calls # <<>>

\* C7: for Hindi, Gujarati and Tamil and every outcome of the translation
\* calls, translate_node calls the translator exactly once with target "en",
\* and once translate_back_node has returned it has called the translator
\* exactly twice with the learner's language code, once with the explanation
\* and once with the encouragement.
C7_TranslationCallCounts ==
  (state.lang \in {Hindi, Gujarati, Tamil} /\ Len(ran) >= 1) =>
    /\ Cardinality(CallsOf("translate_node", "translate")) = 1
    /\ \A i \in CallsOf("translate_node", "translate") : calls[i].target = "en"
    /\ Localized =>
         LET back == CallsOf("translate_back_node", "translate") IN
         /\ Cardinality(back) = 2
         /\ \A i \in back : calls[i].target = LANGUAGE_CODES[state.lang]
         /\ \E i \in back : calls[i].arg = rawAnswer
         /\ \E i \in back : calls[i].arg = rawFeedback

\* C8: in a request for Hindi, Gujarati or Tamil in which every collaborator
\* call succeeds there are exactly 3 translation calls, the first by
\* translate_node and the other two by translate_back_node, and the delivered
\* answer and feedback are the translator's outputs for the explanation and
\* the encouragement.
C8_AllSucceed ==
  (Localized /\ state.lang # English /\ \A i \in 1..Len(calls) : calls[i].ok) =>
    LET tr == {i \in 1..Len(calls) : calls[i].svc = "translate"}
        code == LANGUAGE_CODES[state.lang]
    IN
    /\ Cardinality(tr) = 3
    /\ Cardinality(CallsOf("translate_node", "translate")) = 1
    /\ Cardinality(CallsOf("translate_back_node", "translate")) = 2
    /\ \A i \in CallsOf("translate_node", "translate") :
         \A j \in CallsOf("translate_back_node", "translate") : i < j
    /\ state.answer = Translate(rawAnswer, code)
    /\ state.feedback = Translate(rawFeedback, code)
    /\ pc = "done" => /\ session_answer = Translate(rawAnswer, code)
                      /\ session_feedback = Translate(rawFeedback, code)

C8_Witness ==
  /\ pc = "done"
  /\ state.lang = Hindi
  /\ \A i \in 1..Len(calls) : calls[i].ok
  /\ session_answer = Translate(rawAnswer, "hi")
  /\ session_feedback = Translate(rawFeedback, "hi")
  /\ Len(calls) = 6

\* the keyword groups of the Classifier in their order, with their labels
KeywordGroups ==
  <<{kwMath}, {kwScience}, {kwAi, kwArtInt}, {kwHistory}, {kwGeography}>>

GroupLabels == <<TopicMath, TopicScience, TopicAI, TopicHistory, TopicGeography>>

\* the groups of which the lower-cased text contains a keyword
MatchingGroups(text) ==
  {g \in 1..Len(KeywordGroups) : \E kw \in KeywordGroups[g] : Contains(Lower(text), kw)}

\* C9: for every response of the generation call, topic is the label of the
\* first keyword group, in the order math, science, ai / artificial
\* intelligence, history, geography, of which the lower-cased response
\* contains a keyword; when it contains none, topic is the response trimmed
\* and capitalized.
C9_FirstMatchWins ==
  (genResponse.ok /\ Len(ran) >= 2) =>
    LET m == MatchingGroups(genResponse.text) IN
    IF m # {}
    THEN \E g \in m : (\A h \in m : g <= h) /\ state.topic = GroupLabels[g]
    ELSE state.topic = Capitalize(Strip(genResponse.text))

C9_Witness ==
  /\ pc = "retrieve_node"
  /\ genResponse.ok
  /\ genResponse.text = TopicScience \o kwMath
  /\ state.topic = TopicMath

\* C10: when the retrieval call returns, docs is the content of the first
\* returned document whatever follows it, and "No content found" when the
\* returned list is empty; unless the first document itself reads "No content
\* found", docs is that sentinel exactly when the list is empty; an empty
\* list raises nothing and the next stage is the Explainer.
C10_FirstDocOrSentinel ==
  (retDocs.ok /\ Len(ran) >= 3) =>
    /\ "docs" \in DOMAIN state
    /\ retDocs.docs # <<>> => state.docs = Head(retDocs.docs).page_content
    /\ retDocs.docs = <<>> => state.docs = NoContent
    /\ (state.docs = NoContent /\ retDocs.docs # <<>>)
         => Head(retDocs.docs).page_content = NoContent
    /\ Len(ran) = 3 => pc = "generate_answer_node"

C10_Witness ==
  /\ pc = "done"
  /\ retDocs.ok
  /\ Len(retDocs.docs) = 2
  /\ retDocs.docs[1].page_content # retDocs.docs[2].page_content
  /\ state.docs = retDocs.docs[1].page_content

\* C11: a failure of the search call of retrieve_node is treated as an empty
\* result: the node does not raise, docs is "No content found" and the next
\* stage is the Explainer.
C11_RetrievalErrorAsEmpty ==
  FailedCallsOf("retrieve_node") # {} =>
    /\ pc # "aborted" \/ ran[Len(ran)] # "retrieve_node"
    /\ "docs" \in DOMAIN state /\ state.docs = NoContent
    /\ Len(ran) = 3 => pc = "generate_answer_node"

\* C13: once the Classifier has run, topic is not empty, whatever the
\* generation call did: failure, a response with a keyword, a response
\* without one, an empty or blank response.
C13_TopicNonEmpty ==
  Len(ran) >= 2 => "topic" \in DOMAIN state /\ state.topic # <<>>

\* the stages that may assign each key of the dict
FieldWriters ==
  [question   |-> {},
   lang       |-> {},
   translated |-> {"translate_node"},
   topic      |-> {"intent_node"},
   grade      |-> {"intent_node"},
   docs       |-> {"retrieve_node"},
   answer     |-> {"generate_answer_node", "translate_back_node"},
   feedback   |-> {"feedback_node", "translate_back_node"}]

\* the keys whose presence or value a step changes
ChangedKeys ==
  {k \in DOMAIN state \cup DOMAIN state' :
     \/ k \notin DOMAIN state
     \/ k \notin DOMAIN state'
     \/ state[k] # state'[k]}

\* a step of a stage changes only keys that the stage may assign
WritesOwnFields ==
  pc \in Stages =>
    /\ \A k \in ChangedKeys : k \in DOMAIN FieldWriters /\ pc \in FieldWriters[k]
    /\ pc = "progress_node" => state' = state

\* C16: a stage changes only the fields it owns: question and lang are never
\* changed, translated only by translate_node, topic and grade only by
\* intent_node, docs only by retrieve_node, answer only by
\* generate_answer_node and translate_back_node, feedback only by
\* feedback_node and translate_back_node, and progress_node changes nothing.
C16_FieldOwnership == [][WritesOwnFields]_vars

C16_Witness ==
  /\ pc = "done"
  /\ ran = Pipeline
  /\ state.lang = Gujarati
  /\ state.answer = Translate(rawAnswer, "gu")
  /\ DOMAIN state = DOMAIN FieldWriters

\* the template of the Encourager
Encouragement(topic) == <<"Great job! Want to learn more about ">> \o topic \o <<"?">>

\* C17: feedback_node makes no collaborator call and does not raise; the
\* encouragement is the template filled with the topic that intent_node wrote
\* in the same request, and the default "this topic" is never used because
\* topic is set whenever feedback_node is about to run.
C17_EncouragerUsesTopic ==
  /\ pc = "feedback_node" => "topic" \in DOMAIN state
  /\ Len(ran) >= 6 =>
       /\ \A i \in 1..Len(calls) : calls[i].stage # "feedback_node"
       /\ rawFeedback = Encouragement(state.topic)
       /\ rawFeedback # Encouragement(ThisTopic)
       /\ state.topic =
            (IF genResponse.ok THEN ClassifyTopic(Lower(genResponse.text)) ELSE TopicDefault)
       /\ Len(ran) = 6 => pc = "translate_back_node" /\ state.feedback = rawFeedback

C17_Witness ==
  /\ pc = "translate_back_node"
  /\ genResponse.ok
  /\ state.topic = TopicScience
  /\ state.feedback = Encouragement(TopicScience)

\* C18: for Hindi, Gujarati and Tamil, once translate_back_node has returned
\* either answer and feedback are both the translations and answer carries no
\* suffix, or feedback is the Encourager's text and answer is the Explainer's
\* text plus the suffix; never exactly one of the two is translated, and the
\* suffix is never appended to feedback.
C18_AllOrNothing ==
  (Localized /\ state.lang # English) =>
    LET code == LANGUAGE_CODES[state.lang] IN
    \/ /\ state.answer = Translate(rawAnswer, code)
       /\ state.feedback = Translate(rawFeedback, code)
       /\ FailedCallsOf("translate_back_node") = {}
    \/ /\ \E e \in ErrMsgs : state.answer = rawAnswer \o DiagnosticSuffix(e)
       /\ state.feedback = rawFeedback
       /\ FailedCallsOf("translate_back_node") # {}

C18_Witness ==
  /\ pc = "deliver"
  /\ state.lang = Tamil
  /\ state.feedback = rawFeedback
  /\ \E i \in FailedCallsOf("translate_back_node") : calls[i].arg = rawFeedback
  /\ Cardinality(CallsOf("translate_back_node", "translate")) = 2

\* C12: a language string outside LANGUAGE_CODES is treated as English: the
\* request makes no translation call at all; and for every language string
\* translate_node calls the translator if and only if translate_back_node
\* does.
C12_UnknownLanguageIsCanonical ==
  /\ (pc # "idle" /\ state.lang \notin DOMAIN LANGUAGE_CODES)
       => \A i \in 1..Len(calls) : calls[i].svc # "translate"
  /\ Localized =>
       (CallsOf("translate_node", "translate") # {}
          <=> CallsOf("translate_back_node", "translate") # {})

\* the calls of the current request to a service
CallsTo(svc) == {i \in 1..Len(calls) : calls[i].svc = svc}

\* a request is running
Running == pc \in Stages \cup {"deliver"}

\* the calls a request makes are bounded and none is repeated
CallBudget ==
  /\ Cardinality(CallsTo("translate")) <= 3
  /\ Cardinality(CallsTo("generate")) <= 2
  /\ Cardinality(CallsTo("retrieve")) <= 1
  /\ \A i, j \in 1..Len(calls) :
       (calls[i].stage = calls[j].stage /\ calls[i].arg = calls[j].arg) => i = j

\* C19: when every collaborator call returns or fails, every started request
\* ends, completed or aborted, and it makes at most 3 translation calls, 2
\* generation calls and 1 retrieval call, none of them twice.
C19_TerminatesWithinBudget ==
  /\ []CallBudget
  /\ Running ~> (pc \in {"done", "aborted"})

C19_Witness ==
  /\ pc = "done"
  /\ Cardinality(CallsTo("translate")) = 3
  /\ Cardinality(CallsTo("generate")) = 2
  /\ Cardinality(CallsTo("retrieve")) = 1

\* C14: a run with the question and language of the previous run, against
\* collaborators that answer the same arguments the same way, goes through
\* the same stages, ends the same way and delivers the same answer and
\* feedback.
C14_Deterministic ==
  (prev.run /\ state.question = prev.question /\ state.lang = prev.lang) =>
    /\ Len(ran) <= Len(prev.ran)
    /\ \A i \in 1..Len(ran) : ran[i] = prev.ran[i]
    /\ pc \in {"done", "aborted"} =>
         /\ pc = prev.pc
         /\ ran = prev.ran
         /\ pc = "done" => /\ session_answer = prev.answer
                           /\ session_feedback = prev.feedback

C14_Witness ==
  /\ prev.run
  /\ nreq = 2
  /\ pc = "done"
  /\ state.lang = Hindi
  /\ prev.lang = Hindi
  /\ session_answer = prev.answer
  /\ session_answer # <<>>

\* the number of node calls of a run that returned
Returned(rec) == IF rec.pc = "aborted" THEN Len(rec.outs) - 1 ELSE Len(rec.outs)

\* the keys a dict has after k node calls returned
KeysAfter(k) ==
  {"question", "lang"}
    \cup (IF k >= 1 THEN {"translated"} ELSE {})
    \cup (IF k >= 2 THEN {"topic", "grade"} ELSE {})
    \cup (IF k >= 3 THEN {"docs"} ELSE {})
    \cup (IF k >= 4 THEN {"answer"} ELSE {})
    \cup (IF k >= 6 THEN {"feedback"} ELSE {})

\* every field of the dict of a run is what the run alone gives for its own
\* question, language and collaborator results
OwnFields(rec) ==
  LET st == rec.state
      o == rec.outs
      k == Returned(rec)
      canonical == st.lang = English
      explanation == o[4].gen.text
      encouragement == Encouragement(st.topic)
  IN
  rec.pc # "idle" =>
    /\ DOMAIN st = KeysAfter(k)
    /\ k >= 1 => st.translated = (IF canonical THEN st.question
                                  ELSE Translate(st.question, "en"))
    /\ k >= 2 => /\ st.topic = (IF o[2].gen.ok THEN ClassifyTopic(Lower(o[2].gen.text))
                                ELSE TopicDefault)
                 /\ st.grade = GradeConst
    /\ k >= 3 => st.docs = (IF o[3].rt.docs = <<>> THEN NoContent
                            ELSE Head(o[3].rt.docs).page_content)
    /\ (k >= 4 /\ k < 7) => st.answer = explanation
    /\ (k >= 6 /\ k < 7) => st.feedback = encouragement
    /\ k = 7 =>
         IF canonical
         THEN st.answer = explanation /\ st.feedback = encouragement
         ELSE IF o[7].tr1.ok /\ o[7].tr2.ok
         THEN /\ st.answer = Translate(explanation, LANGUAGE_CODES[st.lang])
              /\ st.feedback = Translate(encouragement, LANGUAGE_CODES[st.lang])
         ELSE /\ st.answer = explanation \o
                   DiagnosticSuffix(IF o[7].tr1.ok THEN o[7].tr2.err ELSE o[7].tr1.err)
              /\ st.feedback = encouragement

\* C15: runs of the script interleaved node call by node call do not touch
\* each other's dict: after every node call every field of each run's dict
\* is what that run alone gives for its own inputs and collaborator results.
C15_RequestsIndependent == \A r \in Requests : OwnFields(reqs[r])

C15_Witness ==
  /\ reqs["a"].pc = "deliver"
  /\ reqs["b"].pc = "translate_back_node"
  /\ reqs["a"].state.lang = Hindi
  /\ reqs["b"].state.lang = English
  /\ reqs["a"].state.topic = TopicScience
  /\ reqs["b"].state.topic = TopicDefault
  /\ reqs["b"].state.feedback = Encouragement(TopicDefault)
====
